---- MODULE Spec2Model ----
(***************************************************************************)
(* Model of the xtask release helper of loco: the CI orchestration of      *)
(* xtask/src/ci.rs (run, inner_folders, all_resources, RunResults) and the *)
(* version bump workflow of xtask/src/bump_version.rs (bump, root_package, *)
(* update_starters, replace_loco_rs_version).                              *)
(*                                                                         *)
(* A path is a sequence of path components; base_dir is the empty path.    *)
(* A manifest is a sequence of tokens, each a triple of strings: the part  *)
(* of a Cargo.toml the two regular expressions of bump_version.rs look at. *)
(***************************************************************************)
EXTENDS Integers, Sequences, FiniteSets, TLC

\* ------------------------------------------------------------------ bounds

\* Largest number of entries listed in one category folder.
MaxChildren == 2

\* Largest number of entries over the three category folders together.
MaxEntries == 2

\* Largest number of external checks that fail in one execution.
MaxFailures == 3

\* Largest number of manifest removals by other processes in one execution.
MaxEnvSteps == 1

\* ------------------------------------------------------- names and folders

FOLDER_EXAMPLES == "examples"
FOLDER_STARTERS == "starters"
FOLDER_LOCO_CLI == "loco-cli"

Categories == {FOLDER_EXAMPLES, FOLDER_STARTERS, FOLDER_LOCO_CLI}

\* The names of the entries of a category folder, in the order read_dir
\* lists them: the order of the file system, not the alphabetical one.
ListedNames == <<"b", "a", "c", "d">>
ChildNames == {ListedNames[i] : i \in 1..Len(ListedNames)}

\* base_dir, and Path::join.
BaseDir == <<>>
Join(dir, name) == Append(dir, name)

\* ------------------------------------------------------------- manifests

OldVersion == "0.1.0"
NewVersions == {"0.2.0"}

\* `name = "..." version = "x.y.z"`: what REPLACE_LOCO_LIB_VERSION_ matches.
PkgTok(v) == <<"pkg", "version", v>>
\* `loco-rs = { version = "..."` or `loco-rs = { path = "..."`:
\* what REPLACE_LOCO_PACKAGE_VERSION matches.
DepTok(form, val) == <<"dep", form, val>>
\* Any other text of a manifest.
OtherTok == <<"other", "", "">>

File(content) == [ex |-> TRUE, content |-> content]
NoFile == [ex |-> FALSE, content |-> <<>>]

\* ----------------------------------------------------------- RunResults

RunResults(path, fmt, clippy, test) ==
    [path |-> path, fmt |-> fmt, clippy |-> clippy, test |-> test]

\* A verdict that forgets the lint check.
is_valid_mut(r) == r.fmt /\ r.test

\* RunResults::is_valid: computed from the three fields at each call.
is_valid(r) == r.fmt /\ r.clippy /\ r.test

\* ------------------------------------------------------------ filesystem
\* The part of the disk the program reads and writes: the root manifest and,
\* per category folder, whether it exists and its entries in the order
\* read_dir lists them. An entry is a directory with or without a manifest
\* and with or without a migration sub-folder, itself with or without one.

Child(name, manifest, migdir, migration) ==
    [name |-> name, manifest |-> manifest, migdir |-> migdir,
     migration |-> migration]

Folder(children) == [ex |-> TRUE, children |-> children]
NoFolder == [ex |-> FALSE, children |-> <<>>]

\* Position of the entry called name in a listing, 0 when there is none.
IndexOf(children, name) ==
    IF \E i \in 1..Len(children) : children[i].name = name
    THEN CHOOSE i \in 1..Len(children) : children[i].name = name
    ELSE 0

\* The file at dir/Cargo.toml.
ManifestAt(fs, dir) ==
    IF dir = BaseDir THEN fs.root
    ELSE IF Len(dir) \in {2, 3} /\ dir[1] \in Categories /\ fs.cats[dir[1]].ex
    THEN LET ch == fs.cats[dir[1]].children
             i == IndexOf(ch, dir[2])
         IN IF i = 0 THEN NoFile
            ELSE IF Len(dir) = 2 THEN ch[i].manifest
            ELSE IF dir[3] = "migration" /\ ch[i].migdir THEN ch[i].migration
            ELSE NoFile
    ELSE NoFile

\* dir.join("Cargo.toml").exists()
HasManifest(fs, dir) == ManifestAt(fs, dir).ex

\* starter_project.join("migration").exists()
MigrationExists(fs, dir) ==
    /\ Len(dir) = 2 /\ dir[1] \in Categories /\ fs.cats[dir[1]].ex
    /\ LET ch == fs.cats[dir[1]].children
           i == IndexOf(ch, dir[2])
       IN i # 0 /\ ch[i].migdir

\* A write that never reaches the disk.
WithManifest_nowrite(fs, dir, file) == fs

\* The disk with dir/Cargo.toml replaced by file.
WithManifest(fs, dir, file) ==
    IF dir = BaseDir THEN [fs EXCEPT !.root = file]
    ELSE LET ch == fs.cats[dir[1]].children
             i == IndexOf(ch, dir[2])
         IN IF i = 0 THEN fs
            ELSE IF Len(dir) = 2
            THEN [fs EXCEPT !.cats[dir[1]].children[i].manifest = file]
            ELSE [fs EXCEPT !.cats[dir[1]].children[i].migration = file]

\* errors::Error and errors::Result. The kinds are Io (a std::io::Error
\* converted by `?`), BumpVersion and Message; path is the path the error
\* names.
Error(kind, path) == [kind |-> kind, path |-> path]
NoError == Error("none", <<>>)
Ok(val) == [ok |-> TRUE, err |-> NoError, val |-> val]
Err(e) == [ok |-> FALSE, err |-> e, val |-> <<>>]

\* utils::get_cargo_folders: the entries of folder that hold a manifest, in
\* listing order; an error when the folder cannot be listed.
get_cargo_folders(fs, folder) ==
    LET cat == fs.cats[folder[1]]
        keep(c) == c.manifest.ex
        kept == SelectSeq(cat.children, keep)
    IN IF ~cat.ex
       THEN Err(Error("Io", folder))
       ELSE Ok([i \in 1..Len(kept) |-> Join(folder, kept[i].name)])

\* ---------------------------------------------------- filesystem universe

\* Listings of at most n entries with different names.
RECURSIVE Listings(_, _)
Listings(n, kinds) ==
    IF n = 0 THEN {<<>>}
    ELSE LET shorter == Listings(n - 1, kinds)
         IN shorter \cup
            {Append(l, k) : l \in {x \in shorter : Len(x) = n - 1}, k \in kinds}

\* The i-th entry listed has the i-th name.
ListedInOrder(l) == \A i \in 1..Len(l) : l[i].name = ListedNames[i]

\* A manifest of a starter that depends on loco-rs by version, in its
\* dependencies and in its dev-dependencies.
StarterManifest ==
    <<OtherTok, DepTok("version", OldVersion), OtherTok,
      DepTok("version", OldVersion)>>
\* A manifest without the loco-rs dependency.
PlainManifest == <<OtherTok>>
\* The root manifest, and one without a package version.
RootManifest == <<PkgTok(OldVersion), OtherTok>>

\* Entries of a category folder when only the checks matter: a directory
\* with a manifest or without one.
CIChildren ==
    {Child(n, m, FALSE, NoFile) :
        n \in ChildNames, m \in {File(StarterManifest), NoFile}}

CIFolders ==
    {NoFolder} \cup
    {Folder(l) : l \in {x \in Listings(MaxChildren, CIChildren) : ListedInOrder(x)}}

Entries(cats) ==
    Len(cats[FOLDER_EXAMPLES].children) + Len(cats[FOLDER_STARTERS].children)
        + Len(cats[FOLDER_LOCO_CLI].children)

CIDisks ==
    {[root |-> r, cats |-> c] :
        r \in {File(RootManifest), NoFile},
        c \in {x \in [Categories -> CIFolders] : Entries(x) <= MaxEntries}}

\* Entries of the starters folder when the manifests matter: no manifest, a
\* manifest without the dependency, or a manifest with it and then no
\* migration folder or one with each kind of manifest.
BumpChildren ==
    {Child(n, m, FALSE, NoFile) :
        n \in ChildNames, m \in {NoFile, File(PlainManifest), File(StarterManifest)}}
    \cup
    {Child(n, File(StarterManifest), TRUE, g) :
        n \in ChildNames, g \in {NoFile, File(PlainManifest), File(StarterManifest)}}

BumpFolders ==
    {NoFolder} \cup
    {Folder(l) : l \in {x \in Listings(MaxChildren, BumpChildren) : ListedInOrder(x)}}

BumpDisks ==
    {[root |-> r,
      cats |-> [c \in Categories |-> IF c = FOLDER_STARTERS THEN s ELSE Folder(<<>>)]] :
        r \in {NoFile, File(PlainManifest), File(RootManifest)},
        s \in {x \in BumpFolders : Len(x.children) <= MaxEntries}}

\* ------------------------------------------------------------------ state

VARIABLES
    entry,        \* the function called: "all_resources" or "bump"
    fs,           \* the disk
    fs0,          \* the disk as it was when the function was called
    round,        \* 1 in the first call of the function, 2 in a repeated call
    prev,         \* the trace and the outcome of the first call, in round 2
    pc,           \* the statement about to execute
    trace,        \* what the execution did so far, in order
    running,      \* the external commands in progress
    lastOutcome,  \* how the external command run just ended, until run returns
    failures,     \* external checks that failed so far
    envSteps,     \* manifests removed by other processes so far
    rn,           \* run: dir, the fields evaluated so far, the return value
    inf,          \* inner_folders: root_folder, cargo_projects, position, results
    ar,           \* all_resources: result, the category being extended
    bp,           \* bump: new_version, starter_projects
    us,           \* update_starters: its arguments, starter_projects, position
    report,       \* the table of results printed last
    outcome       \* what the called function returned

vars == <<entry, fs, fs0, round, prev, pc, trace, running, lastOutcome, failures, envSteps,
          rn, inf, ar, bp, us, report, outcome>>

\* An entry of trace.
Event(ev, path, kind, ok) == [ev |-> ev, path |-> path, kind |-> kind, ok |-> ok]

\* Option<RunResults>.
None == [some |-> FALSE, val |-> RunResults(<<>>, FALSE, FALSE, FALSE)]
Some(r) == [some |-> TRUE, val |-> r]

RunFrame(dir, from) ==
    [dir |-> dir, from |-> from, fmt |-> FALSE, clippy |-> FALSE,
     test |-> FALSE, ret |-> None]
InnerFrame(root_folder) ==
    [root_folder |-> root_folder, cargo_projects |-> <<>>, idx |-> 0,
     results |-> <<>>, ret |-> Ok(<<>>)]

\* An all_resources that visits the starters folder first.
CategoryOrder_starters_first == <<FOLDER_STARTERS, FOLDER_EXAMPLES, FOLDER_LOCO_CLI>>

\* The order all_resources visits the category folders in.
CategoryOrder == <<FOLDER_EXAMPLES, FOLDER_STARTERS, FOLDER_LOCO_CLI>>

\* How an external command can end: exit status 0, another exit status, or
\* the command could not be started.
Outcomes == {"ok", "nonzero", "nostart"}

\* An is_ok that looks at the exit status alone: a command that did not start
\* has none and counts as a success.
is_ok_status(o) == o # "nonzero"

\* Result::is_ok of duct's run(): an Err for a status other than 0 and for a
\* command that did not start.
is_ok(o) == o = "ok"

Returned(kind, err, val) == [kind |-> kind, err |-> err, val |-> val]
Pending == Returned("pending", NoError, <<>>)

\* Option<&str> of update_starters' replace_migrator.
NoMigrator == [some |-> FALSE, val |-> OtherTok]
Migrator(tok) == [some |-> TRUE, val |-> tok]

UpdateFrame(phase, replace_with, replace_migrator) ==
    [phase |-> phase, replace_with |-> replace_with,
     replace_migrator |-> replace_migrator, starter_projects |-> <<>>,
     idx |-> 0]

\* The state both functions start in.
InitLocals ==
    /\ pc = "start"
    /\ trace = <<>>
    /\ running = {}
    /\ lastOutcome = "none"
    /\ failures = 0
    /\ envSteps = 0
    /\ rn = RunFrame(<<>>, "none")
    /\ inf = InnerFrame(<<>>)
    /\ ar = [result |-> <<>>, cat |-> 0]
    /\ us = UpdateFrame(0, OtherTok, NoMigrator)
    /\ report = <<>>
    /\ outcome = Pending
    /\ fs0 = fs
    /\ round = 1
    /\ prev = [trace |-> <<>>, outcome |-> Pending]

InitCI ==
    /\ entry = "all_resources"
    /\ fs \in CIDisks
    /\ bp = [new_version |-> OldVersion, starter_projects |-> <<>>]
    /\ InitLocals

InitBump ==
    /\ entry = "bump"
    /\ fs \in BumpDisks
    /\ \E v \in NewVersions : bp = [new_version |-> v, starter_projects |-> <<>>]
    /\ InitLocals

\* ------------------------------------------------------------------- run

\* A run that does not look for the manifest.
run_applies_mut(disk, dir) == TRUE

\* The condition of run: dir.join("Cargo.toml").exists().
run_applies(disk, dir) == HasManifest(disk, dir)

\* The first field expression run evaluates.
FirstCheck == "fmt"

\* A run that returns at the first failed check.
AfterCheck_early(kind, ok) ==
    IF ~ok THEN "run_ret"
    ELSE CASE kind = "fmt" -> "clippy"
           [] kind = "clippy" -> "test"
           [] OTHER -> "run_ret"

\* A run that evaluates test before clippy.
AfterCheck_swapped(kind, ok) ==
    CASE kind = "fmt" -> "test"
      [] kind = "test" -> "clippy"
      [] OTHER -> "run_ret"

\* Where run goes when the check kind has ended (ok: its is_ok()): the
\* struct expression evaluates fmt, clippy and test in this order, whatever
\* each returned, and then run returns.
AfterCheck(kind, ok) ==
    CASE kind = "fmt" -> "clippy"
      [] kind = "clippy" -> "test"
      [] OTHER -> "run_ret"

\* A cargo that is started and not waited for: the next command is started
\* while it runs.
Wait_nonblocking(kind) ==
    CASE kind = "fmt" -> "clippy"
      [] kind = "clippy" -> "test"
      [] OTHER -> "test_wait"

Wait(kind) ==
    CASE kind = "fmt" -> "fmt_wait"
      [] kind = "clippy" -> "clippy_wait"
      [] OTHER -> "test_wait"

\* The outcomes the next external command may have.
PossibleOutcomes == IF failures < MaxFailures THEN Outcomes ELSE {"ok"}

\* The executor of the checks is deterministic: a check that ran in the first
\* call succeeds in the repeated call exactly when it succeeded in the first.
Replay(dir, kind, free) ==
    LET was == {i \in 1..Len(prev.trace) :
                    /\ prev.trace[i].ev = "finish"
                    /\ prev.trace[i].path = dir
                    /\ prev.trace[i].kind = kind}
    IN IF round = 2 /\ was # {}
       THEN {o \in Outcomes : \A i \in was : is_ok(o) = prev.trace[i].ok}
       ELSE free

\* run, line 74: the test for the manifest.
run ==
    /\ pc = "run"
    /\ IF run_applies(fs, rn.dir)
       THEN /\ pc' = FirstCheck
            /\ rn' = rn
       ELSE /\ pc' = "run_ret"
            /\ rn' = [rn EXCEPT !.ret = None]
    /\ UNCHANGED <<bp, us, report, entry, fs0, round, prev, fs, trace, running, lastOutcome, failures, envSteps,
                   inf, ar, outcome>>

\* cargo_fmt, cargo_clippy, cargo_test up to the start of the command: the
\* message is printed and cargo is started in dir.
CargoSpawn(kind) ==
    /\ pc = kind
    /\ running' = running \cup {[dir |-> rn.dir, kind |-> kind]}
    /\ trace' = Append(trace, Event("start", rn.dir, kind, FALSE))
    /\ lastOutcome' = "none"
    /\ pc' = Wait(kind)
    /\ UNCHANGED <<bp, us, report, entry, fs0, round, prev, fs, failures, envSteps, rn, inf, ar, outcome>>

\* The command ends, run() of duct returns and is_ok() sets the field; after
\* the last field the struct is built.
CargoWait(kind) ==
    /\ pc = Wait(kind)
    /\ \E o \in Replay(rn.dir, kind, PossibleOutcomes) :
        LET ok == is_ok(o)
            nxt == AfterCheck(kind, ok)
            set == [rn EXCEPT ![kind] = ok]
        IN /\ lastOutcome' = o
           /\ failures' = IF ok THEN failures ELSE failures + 1
           /\ trace' = Append(trace, Event("finish", rn.dir, kind, ok))
           /\ rn' = IF nxt = "run_ret"
                    THEN [set EXCEPT !.ret =
                            Some(RunResults(set.dir, set.fmt, set.clippy, set.test))]
                    ELSE set
           /\ pc' = nxt
    /\ running' = running \ {[dir |-> rn.dir, kind |-> kind]}
    /\ UNCHANGED <<bp, us, report, entry, fs0, round, prev, fs, envSteps, inf, ar, outcome>>

cargo_fmt == CargoSpawn("fmt") \/ CargoWait("fmt")
cargo_clippy == CargoSpawn("clippy") \/ CargoWait("clippy")
cargo_test == CargoSpawn("test") \/ CargoWait("test")

\* --------------------------------------------------------- inner_folders

\* A loop that pushes whatever run returned.
PushResult_all(results, ret) == Append(results, ret.val)

\* A loop that keeps only the valid results.
PushResult_valid(results, ret) ==
    IF ret.some /\ is_valid(ret.val) THEN Append(results, ret.val) ELSE results

\* What inner_folders does with the value run returned: a Some is pushed, a
\* None is skipped.
PushResult(results, ret) ==
    IF ret.some THEN Append(results, ret.val) ELSE results

\* A `?` that lets the error pass and goes on with the empty value.
Propagates_never(res) == FALSE

\* The `?` operator: an Err is returned to the caller at once.
Propagates(res) == ~res.ok

\* A loop that stops at the first result that is not valid.
MoreProjects_failfast(frame) ==
    /\ frame.idx <= Len(frame.cargo_projects)
    /\ \A i \in 1..Len(frame.results) : is_valid(frame.results[i])

\* inner_folders, line 61: the loop goes through every project of the listing.
MoreProjects(frame) == frame.idx <= Len(frame.cargo_projects)

\* inner_folders, line 58: get_cargo_folders(root_folder)?
inner_folders ==
    /\ pc = "inner_folders"
    /\ LET found == get_cargo_folders(fs, inf.root_folder)
       IN IF ~Propagates(found)
          THEN /\ inf' = [inf EXCEPT !.cargo_projects = found.val, !.idx = 1,
                                     !.results = <<>>]
               /\ pc' = "if_loop"
          ELSE /\ inf' = [inf EXCEPT !.ret = Err(found.err)]
               /\ pc' = "if_ret"
    /\ UNCHANGED <<bp, us, report, entry, fs0, round, prev, fs, trace, running, lastOutcome, failures, envSteps,
                   rn, ar, outcome>>

\* inner_folders, lines 61-66: the next project is run, or Ok(results).
if_loop ==
    /\ pc = "if_loop"
    /\ IF MoreProjects(inf)
       THEN /\ rn' = RunFrame(inf.cargo_projects[inf.idx], "inner_folders")
            /\ pc' = "run"
            /\ inf' = inf
       ELSE /\ inf' = [inf EXCEPT !.ret = Ok(inf.results)]
            /\ pc' = "if_ret"
            /\ rn' = rn
    /\ UNCHANGED <<bp, us, report, entry, fs0, round, prev, fs, trace, running, lastOutcome, failures, envSteps,
                   ar, outcome>>

\* inner_folders, lines 62-64: run returned to the loop.
if_push ==
    /\ pc = "run_ret"
    /\ rn.from = "inner_folders"
    /\ inf' = [inf EXCEPT !.results = PushResult(inf.results, rn.ret),
                          !.idx = inf.idx + 1]
    /\ pc' = "if_loop"
    /\ lastOutcome' = "none"
    /\ UNCHANGED <<bp, us, report, entry, fs0, round, prev, fs, trace, running, failures, envSteps,
                   rn, ar, outcome>>

\* --------------------------------------------------------- all_resources

\* A result vector that outlives the call and keeps what it held.
NewVec_kept(old) == old

\* all_resources, line 42: vec![], the empty result of this call.
NewVec(old) == <<>>

\* all_resources, lines 42-43: the empty result and the call run(base_dir).
ar_start ==
    /\ pc = "start"
    /\ entry = "all_resources"
    /\ ar' = [result |-> NewVec(ar.result), cat |-> 0]
    /\ rn' = RunFrame(BaseDir, "all_resources")
    /\ pc' = "run"
    /\ UNCHANGED <<bp, us, report, entry, fs0, round, prev, fs, trace, running, lastOutcome, failures, envSteps,
                   inf, outcome>>

\* An all_resources that goes on without the root project.
RootFatal_never(ret) == FALSE

\* expect() on the value run returned for the root project: None panics.
RootFatal(ret) == ~ret.some

\* all_resources, line 43: expect() panics on None, a Some is pushed; then
\* line 44 calls inner_folders on the first category folder.
ar_root ==
    /\ pc = "run_ret"
    /\ rn.from = "all_resources"
    /\ IF RootFatal(rn.ret)
       THEN /\ outcome' = Returned("Panic", NoError, <<>>)
            /\ pc' = "done"
            /\ UNCHANGED <<ar, inf>>
       ELSE /\ ar' = [result |-> PushResult(ar.result, rn.ret), cat |-> 1]
            /\ inf' = InnerFrame(Join(BaseDir, CategoryOrder[1]))
            /\ pc' = "inner_folders"
            /\ outcome' = outcome
    /\ lastOutcome' = "none"
    /\ UNCHANGED <<bp, us, report, entry, fs0, round, prev, fs, trace, running, failures, envSteps, rn>>

\* all_resources, lines 44-48: `?` returns the error of inner_folders;
\* otherwise result is extended and the next category folder is visited, and
\* after the last one Ok(result) is returned.
ar_extend ==
    /\ pc = "if_ret"
    /\ entry = "all_resources"
    /\ IF Propagates(inf.ret)
       THEN /\ outcome' = Returned("Err", inf.ret.err, <<>>)
            /\ pc' = "done"
            /\ UNCHANGED <<ar, inf>>
       ELSE LET result == ar.result \o inf.ret.val
            IN IF ar.cat < Len(CategoryOrder)
               THEN /\ ar' = [result |-> result, cat |-> ar.cat + 1]
                    /\ inf' = InnerFrame(Join(BaseDir, CategoryOrder[ar.cat + 1]))
                    /\ pc' = "inner_folders"
                    /\ outcome' = outcome
               ELSE /\ ar' = [ar EXCEPT !.result = result]
                    /\ outcome' = Returned("Ok", NoError, result)
                    /\ pc' = "done"
                    /\ inf' = inf
    /\ UNCHANGED <<bp, us, report, entry, fs0, round, prev, fs, trace, running, lastOutcome, failures, envSteps, rn>>

all_resources == ar_start \/ ar_root \/ ar_extend

\* ------------------------------------------------ manifest rewriting

\* REPLACE_LOCO_LIB_VERSION_.is_match and REPLACE_LOCO_PACKAGE_VERSION.is_match
IsPkg(tok) == tok[1] = "pkg"
IsDep(tok) == tok[1] = "dep"
LibMatches(content) == \E i \in 1..Len(content) : IsPkg(content[i])
PackageMatches(content) == \E i \in 1..Len(content) : IsDep(content[i])

\* Regex::replace: the first match gets the new version.
ReplaceFirstPkg(content, v) ==
    LET first == CHOOSE i \in 1..Len(content) :
                    /\ IsPkg(content[i])
                    /\ \A j \in 1..(i - 1) : ~IsPkg(content[j])
    IN [content EXCEPT ![first] = PkgTok(v)]

\* Regex::replace_all: every match becomes replace_with.
ReplaceAllDep(content, replace_with) ==
    [i \in 1..Len(content) |->
        IF IsDep(content[i]) THEN replace_with ELSE content[i]]

\* What a rewriting function returns and the disk it leaves.
Rewritten(res, disk) == [res |-> res, fs |-> disk]

\* A root_package that returns Ok without touching the manifest.
root_package_skipped(disk, base_dir, new_version) == Rewritten(Ok(<<>>), disk)

\* root_package: the disk after it and its Result.
root_package(disk, base_dir, new_version) ==
    LET file == ManifestAt(disk, base_dir)
        cargo_toml_file == Join(base_dir, "Cargo.toml")
    IN IF ~file.ex THEN Rewritten(Err(Error("Io", cargo_toml_file)), disk)
       ELSE IF ~LibMatches(file.content)
       THEN Rewritten(Err(Error("BumpVersion", cargo_toml_file)), disk)
       ELSE Rewritten(Ok(<<>>),
                WithManifest(disk, base_dir,
                    File(ReplaceFirstPkg(file.content, new_version))))

\* A replace_loco_rs_version that creates, and so empties, the file before it
\* tests for the match.
replace_loco_rs_version_truncating(disk, path, replace_with) ==
    LET file == ManifestAt(disk, path)
        cargo_toml_file == Join(path, "Cargo.toml")
    IN IF ~file.ex THEN Rewritten(Err(Error("Io", cargo_toml_file)), disk)
       ELSE IF ~PackageMatches(file.content)
       THEN Rewritten(Err(Error("BumpVersion", cargo_toml_file)),
                WithManifest(disk, path, File(<<>>)))
       ELSE Rewritten(Ok(<<>>),
                WithManifest(disk, path,
                    File(ReplaceAllDep(file.content, replace_with))))

\* replace_loco_rs_version: the disk after it and its Result.
replace_loco_rs_version(disk, path, replace_with) ==
    LET file == ManifestAt(disk, path)
        cargo_toml_file == Join(path, "Cargo.toml")
    IN IF ~file.ex THEN Rewritten(Err(Error("Io", cargo_toml_file)), disk)
       ELSE IF ~PackageMatches(file.content)
       THEN Rewritten(Err(Error("BumpVersion", cargo_toml_file)), disk)
       ELSE Rewritten(Ok(<<>>),
                WithManifest(disk, path,
                    File(ReplaceAllDep(file.content, replace_with))))

\* ------------------------------------------------------- update_starters

\* update_starters, line 100: get_cargo_folders(starters)?
us_list ==
    /\ pc = "update_starters"
    /\ LET found == get_cargo_folders(fs, Join(BaseDir, FOLDER_STARTERS))
       IN IF found.ok
          THEN /\ us' = [us EXCEPT !.starter_projects = found.val, !.idx = 1]
               /\ pc' = "us_loop"
               /\ outcome' = outcome
          ELSE /\ outcome' = Returned("Err", found.err, <<>>)
               /\ pc' = "done"
               /\ us' = us
    /\ UNCHANGED <<entry, fs0, round, prev, fs, trace, running, lastOutcome, failures, envSteps,
                   rn, inf, ar, bp, report>>

\* update_starters, line 103: the manifest of the next starter is rewritten,
\* `?` returns its error; after the last starter Ok(()).
us_loop ==
    /\ pc = "us_loop"
    /\ IF us.idx <= Len(us.starter_projects)
       THEN LET dir == us.starter_projects[us.idx]
                done == replace_loco_rs_version(fs, dir, us.replace_with)
            IN IF done.res.ok
               THEN /\ fs' = done.fs
                    /\ trace' = Append(trace, Event("write", dir, us.replace_with[2], TRUE))
                    /\ pc' = "us_migration"
                    /\ outcome' = outcome
               ELSE /\ fs' = done.fs
                    /\ outcome' = Returned("Err", done.res.err, <<>>)
                    /\ pc' = "done"
                    /\ trace' = trace
       ELSE /\ pc' = "us_ret"
            /\ UNCHANGED <<fs, trace, outcome>>
    /\ UNCHANGED <<entry, fs0, round, prev, running, lastOutcome, failures, envSteps, rn, inf, ar,
                   bp, us, report>>

\* replace_migrator.unwrap_or(replace_with)
unwrap_or(opt, default) == IF opt.some THEN opt.val ELSE default

\* update_starters, lines 105-111: the manifest of the migration folder, when
\* there is one, is rewritten too.
us_migration ==
    /\ pc = "us_migration"
    /\ LET dir == us.starter_projects[us.idx]
           migration_lock_file == Join(dir, "migration")
           with == unwrap_or(us.replace_migrator, us.replace_with)
           done == replace_loco_rs_version(fs, migration_lock_file, with)
       IN IF ~MigrationExists(fs, dir)
          THEN /\ pc' = "us_loop"
               /\ us' = [us EXCEPT !.idx = us.idx + 1]
               /\ UNCHANGED <<fs, trace, outcome>>
          ELSE IF done.res.ok
          THEN /\ fs' = done.fs
               /\ trace' = Append(trace, Event("write", migration_lock_file, with[2], TRUE))
               /\ pc' = "us_loop"
               /\ us' = [us EXCEPT !.idx = us.idx + 1]
               /\ outcome' = outcome
          ELSE /\ fs' = done.fs
               /\ outcome' = Returned("Err", done.res.err, <<>>)
               /\ pc' = "done"
               /\ UNCHANGED <<trace, us>>
    /\ UNCHANGED <<entry, fs0, round, prev, running, lastOutcome, failures, envSteps, rn, inf, ar,
                   bp, report>>

update_starters == us_list \/ us_loop \/ us_migration

\* ------------------------------------------------------------------ bump

\* A loop that reports the last starter that is not valid.
gate_last(starter_projects) ==
    IF \A i \in 1..Len(starter_projects) : is_valid(starter_projects[i])
    THEN Ok(<<>>)
    ELSE LET last == CHOOSE i \in 1..Len(starter_projects) :
                        /\ ~is_valid(starter_projects[i])
                        /\ \A j \in (i + 1)..Len(starter_projects) :
                              is_valid(starter_projects[j])
         IN Err(Error("Message", starter_projects[last].path))

\* A loop that never returns the error.
gate_open(starter_projects) == Ok(<<>>)

\* The loop of bump, lines 45-52: the error for the first starter that is
\* not valid, in the order of starter_projects.
gate(starter_projects) ==
    IF \A i \in 1..Len(starter_projects) : is_valid(starter_projects[i])
    THEN Ok(<<>>)
    ELSE LET first == CHOOSE i \in 1..Len(starter_projects) :
                        /\ ~is_valid(starter_projects[i])
                        /\ \A j \in 1..(i - 1) : is_valid(starter_projects[j])
         IN Err(Error("Message", starter_projects[first].path))

\* The arguments of the two calls of update_starters.
PathDependency == DepTok("path", "../../")
MigratorPathDependency == DepTok("path", "../../../")
VersionDependency(new_version) == DepTok("version", new_version)

\* bump, lines 31-37: root_package(base_dir, new_version)?, the message, and
\* the call of update_starters with the path dependency.
b_root ==
    /\ pc = "start"
    /\ entry = "bump"
    /\ LET done == root_package(fs, BaseDir, bp.new_version)
       IN IF done.res.ok
          THEN /\ fs' = done.fs
               /\ trace' = trace \o
                    <<Event("write", BaseDir, "root", TRUE),
                      Event("print", <<>>, "Bump Loco lib updated successfully", TRUE),
                      Event("call", <<>>, "update_starters", TRUE)>>
               /\ us' = UpdateFrame(1, PathDependency, Migrator(MigratorPathDependency))
               /\ pc' = "update_starters"
               /\ outcome' = outcome
          ELSE /\ fs' = done.fs
               /\ outcome' = Returned("Err", done.res.err, <<>>)
               /\ pc' = "done"
               /\ UNCHANGED <<trace, us>>
    /\ UNCHANGED <<entry, fs0, round, prev, running, lastOutcome, failures, envSteps, rn, inf, ar,
                   bp, report>>

\* bump, lines 39-41: the first update_starters returned Ok; the message and
\* the call of inner_folders on the starters folder.
b_ci ==
    /\ pc = "us_ret"
    /\ us.phase = 1
    /\ trace' = Append(trace, Event("print", <<>>, "Testing starters CI", TRUE))
    /\ inf' = InnerFrame(Join(BaseDir, FOLDER_STARTERS))
    /\ pc' = "inner_folders"
    /\ UNCHANGED <<entry, fs0, round, prev, fs, running, lastOutcome, failures, envSteps, rn, ar,
                   bp, us, report, outcome>>

\* out::ci_results: one row per result, in the order of the results.
ci_results(results) ==
    [i \in 1..Len(results) |->
        <<results[i].path, results[i].fmt, results[i].clippy, results[i].test>>]

\* bump, lines 41-44: `?` returns the error of inner_folders; otherwise the
\* table of the results is printed.
b_report ==
    /\ pc = "if_ret"
    /\ entry = "bump"
    /\ IF Propagates(inf.ret)
       THEN /\ outcome' = Returned("Err", inf.ret.err, <<>>)
            /\ pc' = "done"
            /\ UNCHANGED <<bp, report, trace>>
       ELSE /\ bp' = [bp EXCEPT !.starter_projects = inf.ret.val]
            /\ report' = ci_results(inf.ret.val)
            /\ trace' = trace \o
                 <<Event("print", <<>>, "Starters CI results:", TRUE),
                   Event("print", <<>>, "ci_results", TRUE)>>
            /\ pc' = "gate"
            /\ outcome' = outcome
    /\ UNCHANGED <<entry, fs0, round, prev, fs, running, lastOutcome, failures, envSteps, rn, inf,
                   ar, us>>

\* bump, lines 45-58: the loop over the results returns its error; otherwise
\* update_starters is called with the version dependency.
b_gate ==
    /\ pc = "gate"
    /\ LET checked == gate(bp.starter_projects)
       IN IF ~checked.ok
          THEN /\ outcome' = Returned("Err", checked.err, <<>>)
               /\ pc' = "done"
               /\ UNCHANGED <<us, trace>>
          ELSE /\ us' = UpdateFrame(2, VersionDependency(bp.new_version), NoMigrator)
               /\ trace' = Append(trace, Event("call", <<>>, "update_starters", TRUE))
               /\ pc' = "update_starters"
               /\ outcome' = outcome
    /\ UNCHANGED <<entry, fs0, round, prev, fs, running, lastOutcome, failures, envSteps, rn, inf,
                   ar, bp, report>>

\* bump, lines 59-61: the second update_starters returned Ok.
b_finish ==
    /\ pc = "us_ret"
    /\ us.phase = 2
    /\ trace' = Append(trace,
            Event("print", <<>>, "Bump loco starters finished successfully", TRUE))
    /\ outcome' = Returned("Ok", NoError, <<>>)
    /\ pc' = "done"
    /\ UNCHANGED <<entry, fs0, round, prev, fs, running, lastOutcome, failures, envSteps, rn, inf,
                   ar, bp, us, report>>

bump == b_root \/ b_ci \/ b_report \/ b_gate \/ b_finish

\* ------------------------------------------------------------ environment

\* Another process removes the manifest of the project inner_folders is about
\* to run, after get_cargo_folders listed it.
EnvRemoveManifest ==
    /\ pc = "if_loop"
    /\ envSteps < MaxEnvSteps
    /\ inf.idx <= Len(inf.cargo_projects)
    /\ HasManifest(fs, inf.cargo_projects[inf.idx])
    /\ fs' = WithManifest(fs, inf.cargo_projects[inf.idx], NoFile)
    /\ envSteps' = envSteps + 1
    /\ UNCHANGED <<bp, us, report, entry, fs0, round, prev, pc, trace, running, lastOutcome, failures, rn, inf,
                   ar, outcome>>

\* The steps both functions take through run and inner_folders.
Checks ==
    \/ run
    \/ cargo_fmt
    \/ cargo_clippy
    \/ cargo_test
    \/ inner_folders
    \/ if_loop
    \/ if_push
    \/ EnvRemoveManifest

Init == InitCI \/ InitBump

Next == Checks \/ all_resources \/ update_starters \/ bump

\* Every execution of all_resources and of bump.
Spec == Init /\ [][Next]_vars

\* The executions of all_resources.
NextCI == Checks \/ all_resources
SpecCI == InitCI /\ [][NextCI]_vars

\* The executions of bump.
NextBump == Checks \/ update_starters \/ bump
SpecBump == InitBump /\ [][NextBump]_vars

\* all_resources is called a second time on the same disk: the first call's
\* trace and outcome are kept, and the locals of the call start afresh.
Again ==
    /\ pc = "done"
    /\ entry = "all_resources"
    /\ round = 1
    /\ round' = 2
    /\ prev' = [trace |-> trace, outcome |-> outcome]
    /\ pc' = "start"
    /\ trace' = <<>>
    /\ lastOutcome' = "none"
    /\ failures' = 0
    /\ rn' = RunFrame(<<>>, "none")
    /\ inf' = InnerFrame(<<>>)
    /\ outcome' = Pending
    /\ UNCHANGED <<entry, fs, fs0, running, envSteps, ar, bp, us, report>>

\* Two calls of all_resources on one snapshot of the disk: no other process
\* changes it.
NextTwice ==
    \/ run
    \/ cargo_fmt
    \/ cargo_clippy
    \/ cargo_test
    \/ inner_folders
    \/ if_loop
    \/ if_push
    \/ all_resources
    \/ Again
SpecTwice == InitCI /\ [][NextTwice]_vars

\* ================================================================ claims

CheckKinds == {"fmt", "clippy", "test"}

\* Positions in trace where the check kind ended for dir.
FinishesOf(dir, kind) ==
    {i \in 1..Len(trace) :
        trace[i].ev = "finish" /\ trace[i].path = dir /\ trace[i].kind = kind}
ChecksOf(dir) ==
    {i \in 1..Len(trace) : trace[i].ev = "finish" /\ trace[i].path = dir}

\* The paths a check was started on.
CheckedPaths == {trace[i].path : i \in {j \in 1..Len(trace) : trace[j].ev = "start"}}

\* The starts and ends of checks on dir, in the order they happened.
CheckEvents(dir) ==
    LET onDir(e) == e.path = dir /\ e.ev \in {"start", "finish"}
    IN SelectSeq(trace, onDir)

\* Each of the three checks ran exactly once on dir: six events, a start and
\* an end of each kind.
ThreeChecks(dir) ==
    LET evs == CheckEvents(dir)
    IN /\ Len(evs) = 6
       /\ \A k \in CheckKinds : \A ev \in {"start", "finish"} :
             \E i \in 1..6 : evs[i].kind = k /\ evs[i].ev = ev

\* No check was started on dir.
NoChecks(dir) ==
    \A i \in 1..Len(trace) :
        trace[i].ev \in {"start", "finish"} => trace[i].path # dir

PathsOf(results) == [i \in 1..Len(results) |-> results[i].path]

\* The loop of bump over the results has ended.
GateActed ==
    /\ entry = "bump"
    /\ pc # "gate"
    /\ \E i \in 1..Len(trace) : trace[i].ev = "print" /\ trace[i].kind = "ci_results"

GateFailed == outcome.kind = "Err" /\ outcome.err.kind = "Message"

\* update_starters was called for the second time, with the version dependency.
SecondPhase ==
    \/ us.phase = 2
    \/ \E i \in 1..Len(trace) : trace[i].ev = "write" /\ trace[i].kind = "version"

\* C1: once the loop of bump over the starters' results has ended, bump
\* returned the error of the loop exactly when some result is not valid, and
\* then the error names the path of the first such result in the order of
\* the results; when every result is valid the loop raised nothing.
C1_GateFirstInvalid ==
    GateActed =>
        LET rs == bp.starter_projects
            invalid == {i \in 1..Len(rs) : ~is_valid(rs[i])}
        IN /\ GateFailed <=> invalid # {}
           /\ GateFailed =>
                \E i \in invalid :
                    /\ \A j \in invalid : i <= j
                    /\ outcome.err.path = rs[i].path

\* Two starters are not valid and the error was raised.
C1_Witness ==
    /\ GateActed
    /\ GateFailed
    /\ Len(bp.starter_projects) = 2
    /\ \A i \in 1..2 : ~is_valid(bp.starter_projects[i])

\* C2: in bump the second call of update_starters, and every write of the
\* version dependency, happens only when every starter result is valid; when
\* one is not valid bump has returned the error after the loop and the
\* second phase was not started.
C2_NoSecondPhaseWhenInvalid ==
    LET rs == bp.starter_projects
        allValid == \A i \in 1..Len(rs) : is_valid(rs[i])
    IN /\ SecondPhase => GateActed /\ allValid
       /\ (GateActed /\ ~allValid) =>
             pc = "done" /\ outcome.kind = "Err" /\ ~SecondPhase

\* A starter is not valid, bump ended, the first phase had written.
C2_Witness ==
    /\ GateActed
    /\ \E i \in 1..Len(bp.starter_projects) : ~is_valid(bp.starter_projects[i])
    /\ pc = "done"
    /\ \E i \in 1..Len(trace) : trace[i].ev = "write" /\ trace[i].kind = "path"

\* C3: when run returns for a path that holds the manifest, each of the
\* three checks was executed exactly once on it, whatever each returned; and
\* no path ever gets more than three checks.
C3_NoEarlyExit ==
    /\ (pc = "run_ret" /\ HasManifest(fs, rn.dir)) => ThreeChecks(rn.dir)
    /\ \A d \in CheckedPaths : Cardinality(ChecksOf(d)) <= 3

\* run returns after the format check and the lint check failed.
C3_Witness ==
    /\ pc = "run_ret"
    /\ rn.ret.some
    /\ ~rn.ret.val.fmt /\ ~rn.ret.val.clippy
    /\ ThreeChecks(rn.dir)

\* C4: run returns None for a path without the manifest, without having
\* started a check on it, and Some for a path with the manifest.
C4_NoneWithoutManifest ==
    pc = "run_ret" =>
        /\ rn.ret.some <=> HasManifest(fs, rn.dir)
        /\ ~HasManifest(fs, rn.dir) => NoChecks(rn.dir) /\ rn.ret = None
        /\ rn.ret.some => rn.ret.val.path = rn.dir

\* run returned None to inner_folders for a project that had been listed.
C4_Witness ==
    /\ pc = "run_ret"
    /\ rn.from = "inner_folders"
    /\ ~HasManifest(fs, rn.dir)
    /\ ~rn.ret.some

\* C5: on every path the format check starts first, the lint check starts
\* only after the format check has ended, and the test check only after the
\* lint check has ended.
C5_FixedOrder ==
    \A d \in CheckedPaths :
        LET evs == CheckEvents(d)
            is(i, ev, kind) == evs[i].ev = ev /\ evs[i].kind = kind
        IN \A i \in 1..Len(evs) :
              /\ is(i, "start", "clippy") => \E j \in 1..(i - 1) : is(j, "finish", "fmt")
              /\ is(i, "start", "test") => \E j \in 1..(i - 1) : is(j, "finish", "clippy")
              /\ is(i, "start", "fmt") => i = 1

\* All three checks of the root project have ended.
C5_Witness ==
    /\ FinishesOf(BaseDir, "test") # {}
    /\ entry = "all_resources"

\* The results the program holds.
HeldResults ==
    {ar.result[i] : i \in 1..Len(ar.result)}
        \cup {inf.results[i] : i \in 1..Len(inf.results)}
        \cup {bp.starter_projects[i] : i \in 1..Len(bp.starter_projects)}
        \cup (IF rn.ret.some THEN {rn.ret.val} ELSE {})

\* C6: for every result the program holds, is_valid is true exactly when
\* fmt, clippy and test are all true, and a result stores only the path and
\* the three fields, no verdict.
C6_IsValidConjunction ==
    \A r \in HeldResults :
        /\ is_valid(r) = (r.fmt = TRUE /\ r.clippy = TRUE /\ r.test = TRUE)
        /\ DOMAIN r = {"path", "fmt", "clippy", "test"}

\* The loop of bump judged a result whose only failed check is the lint.
C6_Witness ==
    /\ GateActed
    /\ \E i \in 1..Len(bp.starter_projects) :
          LET r == bp.starter_projects[i]
          IN r.fmt /\ ~r.clippy /\ r.test /\ ~is_valid(r)

\* The projects of a category folder that hold a manifest, in listing order.
Discovered(cat) ==
    LET ch == fs.cats[cat].children
        hasManifest(c) == c.manifest.ex
        kept == SelectSeq(ch, hasManifest)
    IN [i \in 1..Len(kept) |-> <<cat, kept[i].name>>]

\* The fields of r are what its three checks returned.
FieldsFromChecks(r) ==
    /\ ThreeChecks(r.path)
    /\ \A k \in CheckKinds : \A i \in FinishesOf(r.path, k) : r[k] = trace[i].ok

\* C7: the sequence all_resources returns is the result of the root project,
\* then the results of the examples folder, of the starters folder and of
\* the CLI folder, each folder's in listing order.
C7_ResultOrder ==
    (entry = "all_resources" /\ outcome.kind = "Ok") =>
        /\ PathsOf(outcome.val) =
              <<BaseDir>> \o Discovered("examples") \o Discovered("starters")
                  \o Discovered("loco-cli")
        /\ \A i \in 1..Len(outcome.val) : FieldsFromChecks(outcome.val[i])

\* all_resources returned the root, a result of the examples folder and a
\* result of the starters folder.
C7_Witness ==
    /\ entry = "all_resources"
    /\ outcome.kind = "Ok"
    /\ Len(outcome.val) = 3
    /\ Len(Discovered("examples")) = 1
    /\ Len(Discovered("starters")) = 1

\* C8: when base_dir holds no manifest all_resources panics: it returns no
\* results, it lists no category folder and starts no check.
C8_RootFatal ==
    (entry = "all_resources" /\ ~HasManifest(fs, BaseDir)) =>
        /\ pc \in {"start", "run", "run_ret", "done"}
        /\ pc = "done" => outcome.kind = "Panic"
        /\ outcome.val = <<>>
        /\ trace = <<>>
        /\ ar.result = <<>>
        /\ inf.cargo_projects = <<>>

\* all_resources panicked although a category folder holds a project.
C8_Witness ==
    /\ entry = "all_resources"
    /\ outcome.kind = "Panic"
    /\ \E c \in Categories : Len(Discovered(c)) > 0

\* C9: inner_folders returns Ok whenever its folder could be listed, whatever
\* the checks returned, with exactly one result for each listed project that
\* held the manifest when run looked, in listing order and with the fields
\* its checks returned.
C9_FailuresAreData ==
    pc = "if_ret" =>
        /\ inf.ret.ok <=> fs.cats[inf.root_folder[1]].ex
        /\ inf.ret.ok =>
              /\ PathsOf(inf.ret.val) = Discovered(inf.root_folder[1])
              /\ \A i \in 1..Len(inf.ret.val) : FieldsFromChecks(inf.ret.val[i])

\* inner_folders returned two results, the first with every check failed.
C9_Witness ==
    /\ pc = "if_ret"
    /\ inf.ret.ok
    /\ Len(inf.ret.val) = 2
    /\ LET r == inf.ret.val[1] IN ~r.fmt /\ ~r.clippy /\ ~r.test
    /\ ThreeChecks(inf.ret.val[2].path)

\* C10: every result inner_folders holds is of a project it listed, that
\* holds the manifest, and on which the three checks were executed; an entry
\* without the manifest has no result and no check.
C10_OnlyRealProjects ==
    /\ \A i \in 1..Len(inf.results) :
          LET r == inf.results[i]
          IN /\ \E j \in 1..Len(inf.cargo_projects) : inf.cargo_projects[j] = r.path
             /\ HasManifest(fs, r.path)
             /\ ThreeChecks(r.path)
    /\ \A c \in Categories : \A i \in 1..Len(fs.cats[c].children) :
          LET dir == <<c, fs.cats[c].children[i].name>>
          IN ~HasManifest(fs, dir) =>
                /\ NoChecks(dir)
                /\ \A r \in HeldResults : r.path # dir

\* inner_folders returned a result for one entry and none for another that
\* it had listed and whose manifest was gone when run looked.
C10_Witness ==
    /\ pc = "if_ret"
    /\ inf.ret.ok
    /\ Len(inf.cargo_projects) = 2
    /\ Len(inf.ret.val) = 1

\* The category folders all_resources visits that are not on the disk, as
\* positions of CategoryOrder.
MissingCategories ==
    {i \in 1..Len(CategoryOrder) : ~fs.cats[CategoryOrder[i]].ex}

\* No check was started on a project of the category folder cat.
NoChecksIn(cat) == \A p \in CheckedPaths : Len(p) = 0 \/ p[1] # cat

\* C11: when the category folder is not on the disk inner_folders returns
\* the error of the listing, with no result and with no check started in
\* that folder; all_resources, when it returns, returns an error exactly
\* when some category folder is missing, and then the error is that of the
\* first missing folder in the order of the visits and it carries no result,
\* whatever the root project and the earlier folders had contributed.
C11_MissingFolderIsError ==
    /\ (pc = "if_ret" /\ ~fs.cats[inf.root_folder[1]].ex) =>
          /\ ~inf.ret.ok
          /\ inf.ret.err = Error("Io", inf.root_folder)
          /\ inf.ret.val = <<>>
          /\ NoChecksIn(inf.root_folder[1])
    /\ (entry = "all_resources" /\ pc = "done" /\ outcome.kind # "Panic") =>
          /\ outcome.kind = "Err" <=> MissingCategories # {}
          /\ outcome.kind = "Err" =>
                \E i \in MissingCategories :
                    /\ \A j \in MissingCategories : i <= j
                    /\ outcome.err = Error("Io", Join(BaseDir, CategoryOrder[i]))
                    /\ outcome.val = <<>>
                    /\ \A j \in i..Len(CategoryOrder) : NoChecksIn(CategoryOrder[j])

\* all_resources returned the error of the missing starters folder after it
\* had collected the results of the root project and of an example.
C11_Witness ==
    /\ entry = "all_resources"
    /\ pc = "done"
    /\ outcome.kind = "Err"
    /\ outcome.err.path = <<FOLDER_STARTERS>>
    /\ Len(ar.result) = 2
    /\ outcome.val = <<>>

\* The disk of the scenario: the root manifest, and the starters folder with
\* the projects a and b.
ScenarioDisk ==
    /\ fs.root.ex
    /\ fs.cats[FOLDER_STARTERS].ex
    /\ Len(fs.cats[FOLDER_STARTERS].children) = 2
    /\ {<<FOLDER_STARTERS, "a">>, <<FOLDER_STARTERS, "b">>} =
          {p \in {<<FOLDER_STARTERS, n>> : n \in ChildNames} : HasManifest(fs, p)}

\* The other two category folders are on the disk and hold nothing.
OthersEmpty ==
    /\ fs.cats[FOLDER_EXAMPLES] = Folder(<<>>)
    /\ fs.cats[FOLDER_LOCO_CLI] = Folder(<<>>)

\* The checks of the scenario: every check of a succeeds, and of b the lint
\* check fails and the two others succeed.
ScenarioChecks ==
    \A i \in 1..Len(trace) :
        (trace[i].ev = "finish" /\ Len(trace[i].path) = 2) =>
            trace[i].ok = ~(trace[i].path[2] = "b" /\ trace[i].kind = "clippy")

\* What the scenario ends in: three results, of the root and of a and b, and
\* the loop of bump over the results of the starters returns the error that
\* names b.
ScenarioResult ==
    /\ outcome.kind = "Ok"
    /\ Len(outcome.val) = 3
    /\ {outcome.val[i].path : i \in 1..Len(outcome.val)} =
          {BaseDir, <<FOLDER_STARTERS, "a">>, <<FOLDER_STARTERS, "b">>}
    /\ LET isStarter(r) == Len(r.path) = 2 /\ r.path[1] = FOLDER_STARTERS
           checked == gate(SelectSeq(outcome.val, isStarter))
       IN /\ ~checked.ok
          /\ checked.err = Error("Message", <<FOLDER_STARTERS, "b">>)

\* C12 as stated: on a base directory with the root manifest and the
\* starters folder holding a and b, a passing every check and b failing the
\* lint check, all_resources returns three results and the loop over the
\* starters' results fails naming b. Nothing is asked of the two other
\* category folders.
C12_ScenarioAsStated ==
    (entry = "all_resources" /\ pc = "done" /\ ScenarioDisk /\ ScenarioChecks)
        => ScenarioResult

\* C12: on a base directory with the root manifest, the starters folder
\* holding a and b, and the examples folder and the CLI folder present and
\* empty, a passing every check and b failing the lint check, all_resources
\* returns three results, of the root, a and b, and the loop of bump over
\* the starters' results fails naming b.
C12_Scenario ==
    (entry = "all_resources" /\ pc = "done" /\ ScenarioDisk /\ OthersEmpty
        /\ ScenarioChecks) => ScenarioResult

\* The scenario ran to its end.
C12_Witness ==
    /\ entry = "all_resources"
    /\ pc = "done"
    /\ ScenarioDisk
    /\ OthersEmpty
    /\ ScenarioChecks
    /\ ThreeChecks(<<FOLDER_STARTERS, "a">>)
    /\ ThreeChecks(<<FOLDER_STARTERS, "b">>)
    /\ Len(outcome.val) = 3

\* C13: when all_resources is called twice on the same disk, with checks
\* that end the second time as they ended the first, the second call
\* returns what the first returned: the same kind of outcome and, for
\* results, the same length, and at every index the same path and the same
\* three fields.
C13_Deterministic ==
    (round = 2 /\ pc = "done") =>
        /\ outcome.kind = prev.outcome.kind
        /\ outcome.err = prev.outcome.err
        /\ Len(outcome.val) = Len(prev.outcome.val)
        /\ \A i \in 1..Len(outcome.val) :
              /\ outcome.val[i].path = prev.outcome.val[i].path
              /\ outcome.val[i].fmt = prev.outcome.val[i].fmt
              /\ outcome.val[i].clippy = prev.outcome.val[i].clippy
              /\ outcome.val[i].test = prev.outcome.val[i].test

\* The second call returned three results, one of them not valid, after
\* rerunning every check of the first call.
C13_Witness ==
    /\ round = 2
    /\ pc = "done"
    /\ outcome.kind = "Ok"
    /\ Len(outcome.val) = 3
    /\ \E i \in 1..3 : ~is_valid(outcome.val[i])
    /\ Len(trace) = Len(prev.trace)
    /\ Len(trace) = 18

\* C14: the step in which an external check of run ends sets the field of
\* that check, to true exactly when the command was started and exited with
\* status 0 and to false both for another status and for a command that did
\* not start, and leaves the two other fields as they were; when the step
\* ends the last check, each check has run exactly once and the result is
\* built from the path and the three fields.
C14_FieldFromOwnCheck ==
    [][\A k \in CheckKinds :
          pc = Wait(k) =>
              /\ lastOutcome' \in Outcomes
              /\ rn'[k] = (lastOutcome' = "ok")
              /\ \A j \in CheckKinds \ {k} : rn'[j] = rn[j]
              /\ pc' = "run_ret" =>
                    /\ ThreeChecks(rn.dir)'
                    /\ rn'.ret = Some(RunResults(rn.dir, rn'.fmt, rn'.clippy, rn'.test))]_vars

\* The lint check could not be started after the format check had succeeded:
\* clippy is false, fmt is still true, and the test check is next.
C14_Witness ==
    /\ pc = "test"
    /\ lastOutcome = "nostart"
    /\ rn.fmt
    /\ ~rn.clippy

\* The starts and ends of all checks, in the order they happened.
AllCheckEvents ==
    LET isCheck(e) == e.ev \in {"start", "finish"}
    IN SelectSeq(trace, isCheck)

\* The project of each run of six check events.
BlockPaths ==
    LET ce == AllCheckEvents
    IN [b \in 1..((Len(ce) + 5) \div 6) |-> ce[6 * (b - 1) + 1].path]

\* The place of a project in the order of discovery: the root project, then
\* the category folders in the order of the visits, each in listing order.
Rank(path) ==
    IF path = BaseDir THEN 0
    ELSE LET c == CHOOSE i \in 1..Len(CategoryOrder) : CategoryOrder[i] = path[1]
         IN 10 * c + IndexOf(fs.cats[path[1]].children, path[2])

\* C15: at most one external check is in progress at any time, and it is the
\* one started last; every start of a check is followed by its own end
\* before anything else is started; the six check events of a project are
\* together, so that the checks of a project have all ended when the first
\* check of the next project starts; the projects are checked in the order
\* of discovery and their results are held in that order.
C15_Sequential ==
    LET ce == AllCheckEvents
        n == Len(ce)
        blocks == BlockPaths
    IN /\ Cardinality(running) <= 1
       /\ running = IF n > 0 /\ ce[n].ev = "start"
                    THEN {[dir |-> ce[n].path, kind |-> ce[n].kind]}
                    ELSE {}
       /\ \A i \in 1..n :
             /\ ce[i].path = blocks[((i - 1) \div 6) + 1]
             /\ IF i % 2 = 1
                THEN ce[i].ev = "start"
                ELSE /\ ce[i].ev = "finish"
                     /\ ce[i].kind = ce[i - 1].kind
       /\ \A b \in 1..(Len(blocks) - 1) : Rank(blocks[b]) < Rank(blocks[b + 1])
       /\ Len(inf.root_folder) > 0 =>
             LET inCat(p) == Len(p) = 2 /\ p[1] = inf.root_folder[1]
                 catBlocks == SelectSeq(blocks, inCat)
             IN /\ Len(inf.results) <= Len(catBlocks)
                /\ Len(catBlocks) <= Len(inf.results) + 1
                /\ PathsOf(inf.results) = SubSeq(catBlocks, 1, Len(inf.results))
       /\ (entry = "all_resources" /\ outcome.kind = "Ok") =>
             PathsOf(outcome.val) = blocks

\* The format check of the second project of a folder is in progress, alone,
\* after the checks of the root project and of the folder's first project
\* ended and the first project's result was pushed.
C15_Witness ==
    /\ pc = "fmt_wait"
    /\ Cardinality(running) = 1
    /\ Len(AllCheckEvents) = 13
    /\ Len(ar.result) = 1
    /\ Len(inf.results) = 1
    /\ inf.results[1].path # rn.dir
    /\ ThreeChecks(inf.results[1].path)

\* Positions in trace where the table of the results was printed.
ReportPrints ==
    {i \in 1..Len(trace) : trace[i].ev = "print" /\ trace[i].kind = "ci_results"}

\* C16: bump returns the error of its loop over the results, or any error
\* once a check has been started, only after inner_folders went through
\* every starter it listed, each starter that held its manifest has had its
\* three checks and has its result, no check is in progress, and the table
\* with one row per result was printed after the last check ended.
C16_GateAfterAllChecks ==
    /\ GateFailed => CheckedPaths # {}
    /\ (entry = "bump" /\ outcome.kind = "Err" /\ CheckedPaths # {}) =>
          /\ GateFailed
          /\ pc = "done"
          /\ running = {}
          /\ inf.ret.ok
          /\ inf.idx > Len(inf.cargo_projects)
          /\ bp.starter_projects = inf.ret.val
          /\ \A j \in 1..Len(inf.cargo_projects) :
                LET dir == inf.cargo_projects[j]
                IN IF HasManifest(fs, dir)
                   THEN /\ ThreeChecks(dir)
                        /\ \E i \in 1..Len(bp.starter_projects) :
                              bp.starter_projects[i].path = dir
                   ELSE NoChecks(dir)
          /\ report = ci_results(bp.starter_projects)
          /\ Len(report) = Len(bp.starter_projects)
          /\ Cardinality(ReportPrints) = 1
          /\ \A p \in ReportPrints :
                /\ p = Len(trace)
                /\ \A i \in 1..Len(trace) :
                      trace[i].ev \in {"start", "finish"} => i < p

\* The first of two starters is not valid; the second was checked all the
\* same, the table has both rows, and bump returned the error.
C16_Witness ==
    /\ GateFailed
    /\ Len(bp.starter_projects) = 2
    /\ ~is_valid(bp.starter_projects[1])
    /\ ThreeChecks(bp.starter_projects[2].path)
    /\ Len(report) = 2

\* The step of bump an entry of trace belongs to: 1 the write of the root
\* manifest, 2 a write of the path dependency, 3 a check of a starter, 4 the
\* table of the results, which the loop over the results follows, 5 a write
\* of the version dependency; 0 for the messages and the calls.
Stage(e) ==
    CASE e.ev = "write" /\ e.kind = "root" -> 1
      [] e.ev = "write" /\ e.kind = "path" -> 2
      [] e.ev \in {"start", "finish"} -> 3
      [] e.ev = "print" /\ e.kind = "ci_results" -> 4
      [] e.ev = "write" /\ e.kind = "version" -> 5
      [] OTHER -> 0

\* The steps of bump that have acted so far.
StagesDone == {Stage(trace[i]) : i \in 1..Len(trace)} \ {0}

\* The manifest of dir was rewritten from what it was at the call of bump,
\* with every loco-rs dependency replaced by tok.
RewrittenWith(dir, tok) ==
    /\ ManifestAt(fs0, dir).ex
    /\ PackageMatches(ManifestAt(fs0, dir).content)
    /\ ManifestAt(fs, dir) = File(ReplaceAllDep(ManifestAt(fs0, dir).content, tok))

\* The order of the steps of bump, as the trace and the disk show it.
BumpInOrder ==
    /\ \A i \in 1..Len(trace) : \A j \in i..Len(trace) :
          (Stage(trace[i]) # 0 /\ Stage(trace[j]) # 0) =>
              Stage(trace[i]) <= Stage(trace[j])
    /\ StagesDone # {} =>
          /\ 1 \in StagesDone
          /\ fs0.root.ex
          /\ LibMatches(fs0.root.content)
          /\ fs.root = File(ReplaceFirstPkg(fs0.root.content, bp.new_version))
    /\ (StagesDone \cap {3, 4, 5}) # {} =>
          /\ us.phase \in {1, 2}
          /\ \A k \in 1..Len(fs0.cats[FOLDER_STARTERS].children) :
                LET c == fs0.cats[FOLDER_STARTERS].children[k]
                    dir == <<FOLDER_STARTERS, c.name>>
                IN c.manifest.ex =>
                      /\ \E i \in 1..Len(trace) :
                            /\ trace[i] = Event("write", dir, "path", TRUE)
                      /\ c.migdir =>
                            \E i \in 1..Len(trace) :
                                trace[i] = Event("write", Join(dir, "migration"), "path", TRUE)
                      /\ (5 \notin StagesDone /\ us.phase = 1 /\ HasManifest(fs, dir)) =>
                            RewrittenWith(dir, PathDependency)
    /\ 5 \in StagesDone =>
          /\ 4 \in StagesDone
          /\ \A i \in 1..Len(bp.starter_projects) : is_valid(bp.starter_projects[i])
    /\ outcome.kind = "Err" => pc = "done"

\* C17: bump rewrites the root manifest, then rewrites the starters with the
\* path dependency, then runs the checks of the starters, then prints the
\* table and goes through the results, then rewrites the starters with the
\* version dependency, in this order; a check of a starter runs only when
\* the root manifest holds the new version and the manifest of every starter
\* was rewritten with the path dependency; and once bump has returned, with
\* an error or not, no step follows.
C17_StepOrder ==
    [][/\ outcome.kind = "pending"
       /\ pc # "done"
       /\ BumpInOrder']_vars

\* bump went through its five steps.
C17_Witness ==
    /\ entry = "bump"
    /\ pc = "done"
    /\ outcome.kind = "Ok"
    /\ StagesDone = {1, 2, 3, 4, 5}

\* The starters of the disk bump was called on that held a manifest.
StartersAtCall ==
    LET ch == fs0.cats[FOLDER_STARTERS].children
    IN {<<FOLDER_STARTERS, ch[k].name>> : k \in {i \in 1..Len(ch) : ch[i].manifest.ex}}

\* C18: when bump has returned the error of its loop over the results, the
\* disk stays as the steps before the loop left it: the root manifest holds
\* the new version, every starter manifest, and every manifest of a
\* migration folder, holds the path dependency of the first rewriting, none
\* is back to what it was at the call, and no version dependency was written.
C18_NoRollback ==
    GateFailed =>
        /\ fs.root = File(ReplaceFirstPkg(fs0.root.content, bp.new_version))
        /\ fs.root # fs0.root
        /\ \A dir \in StartersAtCall :
              /\ HasManifest(fs, dir) =>
                    /\ RewrittenWith(dir, PathDependency)
                    /\ ManifestAt(fs, dir) # ManifestAt(fs0, dir)
              /\ MigrationExists(fs0, dir) =>
                    /\ RewrittenWith(Join(dir, "migration"), MigratorPathDependency)
                    /\ ManifestAt(fs, Join(dir, "migration")) #
                          ManifestAt(fs0, Join(dir, "migration"))
        /\ 5 \notin StagesDone

\* bump returned the error of the loop on a disk with two starters, one of
\* them with a migration folder.
C18_Witness ==
    /\ GateFailed
    /\ Cardinality(StartersAtCall) = 2
    /\ \E dir \in StartersAtCall : MigrationExists(fs0, dir)
    /\ \A dir \in StartersAtCall : HasManifest(fs, dir)

\* update_starters returned the error of replace_loco_rs_version.
UpdateFailed ==
    /\ entry = "bump"
    /\ pc = "done"
    /\ outcome.kind = "Err"
    /\ outcome.err.kind \in {"Io", "BumpVersion"}
    /\ Len(outcome.err.path) >= 3

====
